---- MODULE Spec2Model ----
(***************************************************************************)
(* ContractRiskAI backend: the prompt composer (backend/prompts.py) and    *)
(* the /api/analyze and /api/batch-analyze handlers (backend/main.py).     *)
(*                                                                         *)
(* Python strings that the code inspects (clause, context, industry, the   *)
(* LANGFUSE_ENABLED value) are sequences of one-character strings, so that *)
(* strip(), lower(), len() and slicing are computed.  Fixed literals of    *)
(* the code (messages, template pieces, guidance sentences) are TLA+       *)
(* strings.  Optional[str] is a record: None or Some(s).                   *)
(***************************************************************************)
EXTENDS Integers, Sequences, FiniteSets, TLC

VARIABLES
    env,          \* process environment read through os.getenv
    stub,         \* what the model provider may answer to llm.invoke
    endpoint,     \* HTTP handler in progress: "idle", "analyze", "batch", "prompts"
    req,          \* ClauseAnalysisRequest analyze_clause is running on
    pc,           \* position inside analyze_clause
    llm,          \* client returned by get_llm
    prompt,       \* value of get_enhanced_prompt(...)
    response,     \* what llm.invoke returned
    result,       \* json.loads(response.content)
    exc,          \* exception in flight inside the try block
    outcome,      \* how analyze_clause ended: a response or a raised HTTPException
    calls,        \* gateway calls of the current HTTP request, as item indices
    clauses,      \* body of the batch request
    idx,          \* batch_analyze loop position (1-based item being processed)
    results,      \* batch_analyze's results list
    http,         \* what the endpoint answered to the HTTP client
    guidance      \* value of get_industry_guidance(...) in the prompt-module runs

vars == <<env, stub, endpoint, req, pc, llm, prompt, response, result, exc,
          outcome, calls, clauses, idx, results, http, guidance>>

----------------------------------------------------------------------------
(* Bounds of the model *)

\* clause bodies are runs of 0..MaxBody non-blank characters
MaxBody == 11
\* a clause is padded with 0..MaxPad whitespace characters on each side
MaxPad == 1
\* industry-tag case variants upper-case any subset of the first MaxCasePos letters
MaxCasePos == 3
\* batches of up to MaxShortBatch items are enumerated exhaustively
MaxShortBatch == 3
\* longer batches run up to MaxOver items past the size limit
MaxOver == 1
\* in a longer batch every LongPeriod-th item is a valid clause
LongPeriod == 3

----------------------------------------------------------------------------
(* Strings *)

Rep(c, n) == [i \in 1..n |-> c]

Min(a, b) == IF a < b THEN a ELSE b

Whitespace == {" ", "\t", "\n"}

\* str.strip(): drop leading and trailing whitespace
RECURSIVE LStrip(_)
LStrip(s) == IF s # <<>> /\ Head(s) \in Whitespace THEN LStrip(Tail(s)) ELSE s

RECURSIVE RStrip(_)
RStrip(s) ==
    IF s # <<>> /\ s[Len(s)] \in Whitespace THEN RStrip(SubSeq(s, 1, Len(s) - 1)) ELSE s

Strip(s) == RStrip(LStrip(s))

UpperLetters == <<"A","B","C","D","E","F","G","H","I","J","K","L","M",
                  "N","O","P","Q","R","S","T","U","V","W","X","Y","Z">>
LowerLetters == <<"a","b","c","d","e","f","g","h","i","j","k","l","m",
                  "n","o","p","q","r","s","t","u","v","w","x","y","z">>

LowerChar(c) ==
    IF \E i \in 1..26 : UpperLetters[i] = c
    THEN LowerLetters[CHOOSE i \in 1..26 : UpperLetters[i] = c]
    ELSE c

UpperChar(c) ==
    IF \E i \in 1..26 : LowerLetters[i] = c
    THEN UpperLetters[CHOOSE i \in 1..26 : LowerLetters[i] = c]
    ELSE c

\* str.lower()
Lower(s) == [i \in 1..Len(s) |-> LowerChar(s[i])]

\* Optional[str]
None == [none |-> TRUE, str |-> <<>>]
Some(s) == [none |-> FALSE, str |-> s]

\* Python truthiness of an Optional[str]: None and "" are falsy
Truthy(o) == ~o.none /\ Len(o.str) > 0

----------------------------------------------------------------------------
(* backend/prompts.py *)

\* A prompt is a sequence of segments: a literal piece of the f-string
\* template, or an interpolated value.
Lit(s) == [lit |-> s, text |-> <<>>]
Text(t) == [lit |-> "", text |-> t]

technology == <<"t","e","c","h","n","o","l","o","g","y">>
construction == <<"c","o","n","s","t","r","u","c","t","i","o","n">>
healthcare == <<"h","e","a","l","t","h","c","a","r","e">>
retail == <<"r","e","t","a","i","l">>
finance == <<"f","i","n","a","n","c","e">>
real_estate == <<"r","e","a","l","_","e","s","t","a","t","e">>

IndustryTags == {technology, construction, healthcare, retail, finance, real_estate}

\* the industry_guides dict
industry_guides(tag) ==
    CASE tag = technology -> "Consider IP ownership, data protection, SLA terms, and software licensing risks."
      [] tag = construction -> "Focus on delay penalties, variation procedures, defects liability, and payment terms."
      [] tag = healthcare -> "Emphasize patient data privacy, malpractice liability, and regulatory compliance."
      [] tag = retail -> "Review inventory risk, return policies, supplier terms, and consumer protection."
      [] tag = finance -> "Analyze regulatory compliance, fiduciary duties, and financial exposure limits."
      [] tag = real_estate -> "Check title issues, maintenance obligations, rent escalation, and termination rights."

GenericGuidance == "Apply general commercial contract principles and industry best practices."

\* faulty variant: the lookup without .lower()
get_industry_guidance_nolower(industry) ==
    IF industry \in IndustryTags THEN industry_guides(industry) ELSE GenericGuidance

\* industry_guides.get(industry.lower(), <generic sentence>)
get_industry_guidance(industry) ==
    IF Lower(industry) \in IndustryTags
    THEN industry_guides(Lower(industry))
    ELSE GenericGuidance

FewShot == "\n\nExamples of expected output format: ... respond ONLY with a JSON object following this exact format."

\* faulty variant: `if context is not None:` in place of `if context:`
get_enhanced_prompt_notnone(clause, context, industry) ==
    <<Lit("Analyze this contract clause:\n\n"), Text(clause)>>
    \o (IF ~context.none
        THEN <<Lit("\n\nAdditional context: "), Text(context.str)>>
        ELSE <<>>)
    \o (IF Truthy(industry)
        THEN <<Lit("\n\nIndustry context ("), Text(industry.str), Lit("): "),
               Lit(get_industry_guidance(industry.str))>>
        ELSE <<>>)
    \o <<Lit(FewShot)>>

get_enhanced_prompt(clause, context, industry) ==
    <<Lit("Analyze this contract clause:\n\n"), Text(clause)>>
    \o (IF Truthy(context)
        THEN <<Lit("\n\nAdditional context: "), Text(context.str)>>
        ELSE <<>>)
    \o (IF Truthy(industry)
        THEN <<Lit("\n\nIndustry context ("), Text(industry.str), Lit("): "),
               Lit(get_industry_guidance(industry.str))>>
        ELSE <<>>)
    \o <<Lit(FewShot)>>

----------------------------------------------------------------------------
(* Program constants of backend/main.py *)

\* analyze_clause: len(request.clause.strip()) < 10
MinClauseLength == 10
\* batch_analyze: len(clauses) > 10
MaxBatchClauses == 10
\* batch_analyze: clause_request.clause[:50]
EchoLength == 50

----------------------------------------------------------------------------
(* Values exchanged with the model provider *)

Four == {"summary", "risk", "reason", "rewrite"}

\* the value stored under "arabic" in the model's JSON object
Absent == [t |-> "absent", keys |-> {}]
AObj(ks) == [t |-> "object", keys |-> ks]
AStr == [t |-> "string", keys |-> {}]
ANull == [t |-> "null", keys |-> {}]

\* a parsed JSON value: for an object, keys are its top-level keys; for an
\* array or a string, keys are the strings `in` finds in it
JObject(ks, a) ==
    [t |-> "object", keys |-> ks \cup (IF a = Absent THEN {} ELSE {"arabic"}), arabic |-> a]
JOther(t, ks) == [t |-> t, keys |-> ks, arabic |-> Absent]

NoJson == JOther("none", {})

EnglishKeySets ==
    {Four, {"summary"}, Four \ {"summary"}, Four \ {"risk"}, {"error"}, {}}

ArabicValues == {AObj(Four), AObj({}), AObj(Four \ {"risk"}), AStr, ANull, Absent}

JsonValues ==
    {JObject(ks, a) : ks \in EnglishKeySets, a \in ArabicValues}
    \cup {JOther("array", {"summary", "arabic"}), JOther("array", {}),
          JOther("string", {"summary", "arabic"}), JOther("number", {}),
          JOther("null", {})}

\* what llm.invoke does: raises, or returns a message whose content is text
\* that json.loads accepts (as value) or rejects
Raises == [kind |-> "raise", parses |-> FALSE, value |-> NoJson]
Content(ok, v) == [kind |-> "content", parses |-> ok, value |-> v]
NoResponse == [kind |-> "none", parses |-> FALSE, value |-> NoJson]

WellFormed == Content(TRUE, JObject(Four, AObj(Four)))

GatewayOutcomes ==
    {Raises, Content(FALSE, NoJson)} \cup {Content(TRUE, v) : v \in JsonValues}

\* the provider's repertoire in the batch runs
BatchGatewayOutcomes ==
    {Raises, WellFormed, Content(FALSE, NoJson), Content(TRUE, JObject(Four, Absent))}

----------------------------------------------------------------------------
(* Exceptions and outcomes *)

NoExc == [type |-> "none", status_code |-> 0, detail |-> <<>>]
Exc(type, msg) == [type |-> type, status_code |-> 0, detail |-> <<msg>>]
HTTPException(code, detail) == [type |-> "HTTPException", status_code |-> code, detail |-> detail]

StatusText(code) == CASE code = 400 -> "400" [] code = 500 -> "500" [] OTHER -> "0"

\* str(e): Starlette's HTTPException prints "<status_code>: <detail>", the
\* other exceptions print their message
Str(e) ==
    IF e.type = "HTTPException"
    THEN <<StatusText(e.status_code), ": ">> \o e.detail
    ELSE e.detail

NoEnglish == [keys |-> {}, nulls |-> {}]
NoMetadata == [model |-> "", clause_length |-> 0, has_context |-> FALSE, industry |-> None]

NoOutcome ==
    [kind |-> "none", status_code |-> 0, detail |-> <<>>,
     english |-> NoEnglish, arabic |-> Absent, metadata |-> NoMetadata]

\* ClauseAnalysisResponse(english=..., arabic=..., metadata=...)
ClauseAnalysisResponse(english, arabic, metadata) ==
    [kind |-> "response", status_code |-> 200, detail |-> <<>>,
     english |-> english, arabic |-> arabic, metadata |-> metadata]

\* analyze_clause left by `raise`: the exception that reaches the caller
Raised(e) ==
    [kind |-> e.type, status_code |-> e.status_code, detail |-> e.detail,
     english |-> NoEnglish, arabic |-> Absent, metadata |-> NoMetadata]

----------------------------------------------------------------------------
(* Environment and get_llm *)

false_str == <<"f","a","l","s","e">>
true_str == <<"t","r","u","e">>

FlagValues == {None, Some(false_str), Some(true_str), Some(<<"T","R","U","E">>)}

\* LANGFUSE_KEYS: state of LANGFUSE_PUBLIC_KEY / LANGFUSE_SECRET_KEY
Envs ==
    [LANGFUSE_ENABLED : FlagValues,
     LANGFUSE_KEYS : {"valid", "missing", "bad"},
     OPENAI_API_KEY : {"set", "unset"}]

\* os.getenv(name, default)
Getenv(v, default) == IF v.none THEN default ELSE v.str

\* os.getenv("LANGFUSE_ENABLED", "false").lower() == "true"
TracingEnabled(e) == Lower(Getenv(e.LANGFUSE_ENABLED, false_str)) = true_str

\* Langfuse(public_key=..., secret_key=..., host=...): the constructor of the
\* tracing client returns, or with missing or bad credentials may raise
Langfuse(e) ==
    IF e.LANGFUSE_KEYS = "valid"
    THEN {NoExc}
    ELSE {NoExc, Exc("LangfuseError", "tracing client could not be constructed")}

NoLlm == [model |-> "", callbacks |-> <<>>]

\* ChatOpenAI(model="gpt-4o", ..., openai_api_key=os.getenv("OPENAI_API_KEY"),
\* callbacks=callbacks): without a key the client's constructor raises
ChatOpenAI(e, callbacks) ==
    IF e.OPENAI_API_KEY = "unset"
    THEN [exc |-> Exc("OpenAIError", "The api_key client option must be set"), llm |-> NoLlm]
    ELSE [exc |-> NoExc, llm |-> [model |-> "gpt-4o", callbacks |-> callbacks]]

\* get_llm(): every way the call can end, as (exception raised, client returned)
get_llm(e) ==
    LET tracing == IF TracingEnabled(e) THEN Langfuse(e) ELSE {NoExc}
    IN  {IF t # NoExc THEN [exc |-> t, llm |-> NoLlm] ELSE ChatOpenAI(e, <<>>) :
            t \in tracing}

----------------------------------------------------------------------------
(* analyze_clause, one action per step of its try block *)

config == <<env, stub>>
batchVars == <<clauses, idx, results>>

\* not request.clause or len(request.clause.strip()) < 10
InvalidClause(r) == r.clause = <<>> \/ Len(Strip(r.clause)) < MinClauseLength

\* faulty variant: the two key tests joined by `and`
MissingKeys_and(r) == "summary" \notin r.keys /\ "arabic" \notin r.keys

\* "summary" not in result or "arabic" not in result
MissingKeys(r) == "summary" \notin r.keys \/ "arabic" \notin r.keys

\* faulty variant: the except clause re-raises what it caught
ExceptHandler_reraise(e) == e

\* the except clause: every Exception, HTTPException included, is turned
\* into HTTPException(500, f"Analysis failed: {str(e)}")
ExceptHandler(e) == HTTPException(500, <<"Analysis failed: ">> \o Str(e))

\* result.get("arabic", {})
GetArabic(r) == IF "arabic" \in r.keys THEN r.arabic ELSE AObj({})

\* the english_result dict: the four keys, result.get(k) being None for a
\* key the model left out
EnglishResult(r) == [keys |-> Four, nulls |-> Four \ r.keys]

Metadata(r) ==
    [model |-> "gpt-4o", clause_length |-> Len(r.clause),
     has_context |-> Truthy(r.context), industry |-> r.industry]

AnalyzeValidate ==
    /\ pc = "validate"
    /\ IF InvalidClause(req)
       THEN /\ exc' = HTTPException(400,
                        <<"Please provide a valid contract clause (at least 10 characters)">>)
            /\ pc' = "except"
       ELSE /\ pc' = "get_llm"
            /\ exc' = exc
    /\ UNCHANGED <<config, endpoint, req, llm, prompt, response, result, outcome,
                   calls, batchVars, http, guidance>>

AnalyzeGetLlm ==
    /\ pc = "get_llm"
    /\ \E r \in get_llm(env) :
          /\ exc' = r.exc
          /\ llm' = r.llm
          /\ pc' = IF r.exc # NoExc THEN "except" ELSE "prompt"
    /\ UNCHANGED <<config, endpoint, req, prompt, response, result, outcome,
                   calls, batchVars, http, guidance>>

AnalyzePrompt ==
    /\ pc = "prompt"
    /\ prompt' = get_enhanced_prompt(req.clause, req.context, req.industry)
    /\ pc' = "invoke"
    /\ UNCHANGED <<config, endpoint, req, llm, response, result, exc, outcome,
                   calls, batchVars, http, guidance>>

\* faulty variant: a failed provider call is made once more before giving up
AnalyzeInvoke_retry ==
    /\ pc = "invoke"
    /\ \E r \in stub :
          /\ response' = r
          /\ IF r.kind = "raise"
             THEN /\ calls' = Append(Append(calls, idx), idx)
                  /\ exc' = Exc("APIError", "provider call failed")
                  /\ pc' = "except"
             ELSE /\ calls' = Append(calls, idx)
                  /\ exc' = exc
                  /\ pc' = "parse"
    /\ UNCHANGED <<config, endpoint, req, llm, prompt, result, outcome,
                   batchVars, http, guidance>>

\* response = llm.invoke(messages): the one call to the provider
AnalyzeInvoke ==
    /\ pc = "invoke"
    /\ calls' = Append(calls, idx)
    /\ \E r \in stub :
          /\ response' = r
          /\ IF r.kind = "raise"
             THEN /\ exc' = Exc("APIError", "provider call failed")
                  /\ pc' = "except"
             ELSE /\ exc' = exc
                  /\ pc' = "parse"
    /\ UNCHANGED <<config, endpoint, req, llm, prompt, result, outcome,
                   batchVars, http, guidance>>

\* result = json.loads(response.content)
AnalyzeParse ==
    /\ pc = "parse"
    /\ IF response.parses
       THEN /\ result' = response.value
            /\ exc' = exc
            /\ pc' = "check"
       ELSE /\ result' = result
            /\ exc' = Exc("JSONDecodeError", "Expecting value")
            /\ pc' = "except"
    /\ UNCHANGED <<config, endpoint, req, llm, prompt, response, outcome,
                   calls, batchVars, http, guidance>>

AnalyzeCheck ==
    /\ pc = "check"
    /\ IF result.t \in {"number", "null"}
       THEN /\ exc' = Exc("TypeError", "argument is not iterable")
            /\ pc' = "except"
       ELSE IF MissingKeys(result)
       THEN /\ exc' = HTTPException(500, <<"Invalid response format from AI model">>)
            /\ pc' = "except"
       ELSE /\ exc' = exc
            /\ pc' = "build"
    /\ UNCHANGED <<config, endpoint, req, llm, prompt, response, result, outcome,
                   calls, batchVars, http, guidance>>

AnalyzeBuild ==
    /\ pc = "build"
    /\ IF result.t # "object"
       THEN /\ exc' = Exc("AttributeError", "object has no attribute 'get'")
            /\ pc' = "except"
            /\ outcome' = outcome
       ELSE IF GetArabic(result).t # "object"
       THEN /\ exc' = Exc("ValidationError", "arabic: value is not a valid dict")
            /\ pc' = "except"
            /\ outcome' = outcome
       ELSE /\ outcome' = ClauseAnalysisResponse(EnglishResult(result), GetArabic(result),
                                                 Metadata(req))
            /\ pc' = "returned"
            /\ exc' = exc
    /\ UNCHANGED <<config, endpoint, req, llm, prompt, response, result,
                   calls, batchVars, http, guidance>>

AnalyzeExcept ==
    /\ pc = "except"
    /\ outcome' = Raised(ExceptHandler(exc))
    /\ pc' = "raised"
    /\ UNCHANGED <<config, endpoint, req, llm, prompt, response, result, exc,
                   calls, batchVars, http, guidance>>

analyze_clause ==
    \/ AnalyzeValidate
    \/ AnalyzeGetLlm
    \/ AnalyzePrompt
    \/ AnalyzeInvoke
    \/ AnalyzeParse
    \/ AnalyzeCheck
    \/ AnalyzeBuild
    \/ AnalyzeExcept

----------------------------------------------------------------------------
(* Requests *)

NoReq == [clause |-> <<>>, context |-> None, industry |-> None]

Bodies ==
    {Rep("x", n) : n \in 0..MaxBody}
    \cup {Rep("x", 4) \o <<" ">> \o Rep("x", 4), Rep("x", 5) \o <<" ">> \o Rep("x", 5)}

Clauses == {Rep(" ", l) \o b \o Rep("\n", r) : l \in 0..MaxPad, r \in 0..MaxPad, b \in Bodies}

AnalyzeRequests ==
    {[clause |-> c, context |-> x[1], industry |-> x[2]] :
        c \in Clauses,
        x \in {<<None, None>>, <<Some(<<>>), None>>,
               <<Some(<<"c">>), Some(<<"F","i","n","a","n","c","e">>)>>}}

ValidRequest == [clause |-> Rep("x", MinClauseLength), context |-> None, industry |-> None]
ShortRequest ==
    [clause |-> <<" ">> \o Rep("x", MinClauseLength - 1), context |-> None, industry |-> None]
LongRequest ==
    [clause |-> Rep("y", EchoLength + 2), context |-> Some(<<"c">>), industry |-> None]

BatchRequests == {ValidRequest, ShortRequest, LongRequest}

ShortBatches == UNION {[1..n -> BatchRequests] : n \in 0..MaxShortBatch}

LongBatches ==
    {[i \in 1..n |->
        IF (i + k) % LongPeriod = 0
        THEN (IF i % 2 = 0 THEN ValidRequest ELSE LongRequest)
        ELSE ShortRequest] :
        n \in (MaxShortBatch + 1)..(MaxBatchClauses + MaxOver), k \in 0..(LongPeriod - 1)}

Batches == ShortBatches \cup LongBatches

BatchEnvs ==
    {[LANGFUSE_ENABLED |-> None, LANGFUSE_KEYS |-> "valid", OPENAI_API_KEY |-> "set"],
     [LANGFUSE_ENABLED |-> Some(<<"T","R","U","E">>), LANGFUSE_KEYS |-> "missing",
      OPENAI_API_KEY |-> "set"],
     [LANGFUSE_ENABLED |-> None, LANGFUSE_KEYS |-> "valid", OPENAI_API_KEY |-> "unset"]}

----------------------------------------------------------------------------
(* The HTTP endpoints *)

NoHttp == [kind |-> "none", status_code |-> 0, body |-> NoOutcome, results |-> <<>>, total |-> 0]

\* FastAPI answers with the returned model, or with the raised
\* HTTPException's status code and detail
HttpOf(o) ==
    [kind |-> "analyze", status_code |-> o.status_code, body |-> o, results |-> <<>>, total |-> 0]

\* raise HTTPException(status_code=400, detail="Maximum 10 clauses per batch request")
BatchTooLarge ==
    [kind |-> "batch", status_code |-> 400,
     body |-> Raised(HTTPException(400, <<"Maximum 10 clauses per batch request">>)),
     results |-> <<>>, total |-> 0]

\* return {"results": results, "total": len(clauses)}
BatchResponse(rs, cs) ==
    [kind |-> "batch", status_code |-> 200, body |-> NoOutcome, results |-> rs, total |-> Len(cs)]

\* clause_request.clause[:50] + "..."
Echo(clause) == SubSeq(clause, 1, Min(EchoLength, Len(clause))) \o <<".", ".", ".">>

\* the entry batch_analyze appends for one item: "success" with the returned
\* result, or, in its except clause, "error" with str(e) and the clause echo
BatchEntry(o, r) ==
    IF o.kind = "response"
    THEN [status |-> "success", result |-> o, error |-> <<>>, clause |-> <<>>]
    ELSE [status |-> "error", result |-> NoOutcome,
          error |-> Str([type |-> o.kind, status_code |-> o.status_code, detail |-> o.detail]),
          clause |-> Echo(r.clause)]

\* POST /api/analyze.  A behaviour follows one HTTP request: the handlers
\* keep no state between requests.
PostAnalyze ==
    /\ endpoint = "idle"
    /\ http = NoHttp
    /\ \E r \in AnalyzeRequests : req' = r
    /\ endpoint' = "analyze"
    /\ pc' = "validate"
    /\ llm' = NoLlm /\ prompt' = <<>> /\ response' = NoResponse /\ result' = NoJson
    /\ exc' = NoExc /\ outcome' = NoOutcome /\ calls' = <<>> /\ http' = NoHttp
    /\ clauses' = <<>> /\ idx' = 0 /\ results' = <<>>
    /\ UNCHANGED <<config, guidance>>

AnalyzeRespond ==
    /\ endpoint = "analyze"
    /\ pc \in {"returned", "raised"}
    /\ http' = HttpOf(outcome)
    /\ endpoint' = "idle"
    /\ pc' = "idle"
    /\ UNCHANGED <<config, req, llm, prompt, response, result, exc, outcome,
                   calls, batchVars, guidance>>

\* POST /api/batch-analyze: the size check, then the loop is entered
PostBatch ==
    /\ endpoint = "idle"
    /\ http = NoHttp
    /\ \E cs \in Batches :
          /\ clauses' = cs
          /\ IF Len(cs) > MaxBatchClauses
             THEN /\ http' = BatchTooLarge
                  /\ endpoint' = "idle"
             ELSE /\ http' = NoHttp
                  /\ endpoint' = "batch"
    /\ idx' = 1 /\ results' = <<>> /\ calls' = <<>>
    /\ pc' = "idle" /\ req' = NoReq
    /\ llm' = NoLlm /\ prompt' = <<>> /\ response' = NoResponse /\ result' = NoJson
    /\ exc' = NoExc /\ outcome' = NoOutcome
    /\ UNCHANGED <<config, guidance>>

\* for clause_request in clauses: result = await analyze_clause(clause_request)
BatchCall ==
    /\ endpoint = "batch"
    /\ pc = "idle"
    /\ idx <= Len(clauses)
    /\ req' = clauses[idx]
    /\ pc' = "validate"
    /\ llm' = NoLlm /\ prompt' = <<>> /\ response' = NoResponse /\ result' = NoJson
    /\ exc' = NoExc /\ outcome' = NoOutcome
    /\ UNCHANGED <<config, endpoint, calls, batchVars, http, guidance>>

\* faulty variant: each entry is put at the front of the list
BatchRecord_prepend ==
    /\ endpoint = "batch"
    /\ pc \in {"returned", "raised"}
    /\ results' = <<BatchEntry(outcome, req)>> \o results
    /\ idx' = idx + 1
    /\ pc' = "idle"
    /\ UNCHANGED <<config, endpoint, req, llm, prompt, response, result, exc, outcome,
                   calls, clauses, http, guidance>>

\* faulty variant: no try/except around the call, an item's exception leaves the handler
BatchRecord_abort ==
    /\ endpoint = "batch"
    /\ pc \in {"returned", "raised"}
    /\ IF outcome.kind = "response"
       THEN /\ results' = Append(results, BatchEntry(outcome, req))
            /\ idx' = idx + 1
            /\ UNCHANGED <<endpoint, http>>
       ELSE /\ http' = [kind |-> "batch", status_code |-> outcome.status_code,
                        body |-> outcome, results |-> <<>>, total |-> 0]
            /\ endpoint' = "idle"
            /\ UNCHANGED <<results, idx>>
    /\ pc' = "idle"
    /\ UNCHANGED <<config, req, llm, prompt, response, result, exc, outcome,
                   calls, clauses, guidance>>

\* results.append(...) in the try body or in the except clause
BatchRecord ==
    /\ endpoint = "batch"
    /\ pc \in {"returned", "raised"}
    /\ results' = Append(results, BatchEntry(outcome, req))
    /\ idx' = idx + 1
    /\ pc' = "idle"
    /\ UNCHANGED <<config, endpoint, req, llm, prompt, response, result, exc, outcome,
                   calls, clauses, http, guidance>>

BatchReturn ==
    /\ endpoint = "batch"
    /\ pc = "idle"
    /\ idx > Len(clauses)
    /\ http' = BatchResponse(results, clauses)
    /\ endpoint' = "idle"
    /\ UNCHANGED <<config, req, pc, llm, prompt, response, result, exc, outcome,
                   calls, batchVars, guidance>>

----------------------------------------------------------------------------
(* Direct calls of the functions of backend/prompts.py *)

\* value of `guidance` before get_industry_guidance has returned
NotCalled == "(not called)"

CaseVariant(tag, mask) ==
    [i \in 1..Len(tag) |-> IF i \in mask THEN UpperChar(tag[i]) ELSE tag[i]]

IndustryInputs ==
    {CaseVariant(tag, mask) : tag \in IndustryTags, mask \in SUBSET (1..MaxCasePos)}
    \cup {CaseVariant(tag, 1..Len(tag)) : tag \in IndustryTags}
    \cup {<<>>, <<"t","e","c","h">>, <<"l","e","g","a","l">>, <<"L","E","G","A","L">>,
          finance \o <<" ">>, <<" ">> \o retail, finance \o <<"e">>,
          <<"r","e","a","l"," ","e","s","t","a","t","e">>}

PromptRequests ==
    [clause : {<<>>, Rep("x", MinClauseLength)},
     context : {None, Some(<<>>), Some(<<" ">>), Some(<<"c">>)},
     industry : {None} \cup {Some(s) : s \in IndustryInputs}]

CallEnhancedPrompt ==
    /\ endpoint = "prompts"
    /\ prompt = <<>>
    /\ prompt' = get_enhanced_prompt(req.clause, req.context, req.industry)
    /\ UNCHANGED <<config, endpoint, req, pc, llm, response, result, exc, outcome,
                   calls, batchVars, http, guidance>>

CallIndustryGuidance ==
    /\ endpoint = "prompts"
    /\ guidance = NotCalled
    /\ ~req.industry.none
    /\ guidance' = get_industry_guidance(req.industry.str)
    /\ UNCHANGED <<config, endpoint, req, pc, llm, prompt, response, result, exc, outcome,
                   calls, batchVars, http>>

----------------------------------------------------------------------------
(* Specifications *)

Idle ==
    /\ endpoint = "idle" /\ req = NoReq /\ pc = "idle"
    /\ llm = NoLlm /\ prompt = <<>> /\ response = NoResponse /\ result = NoJson
    /\ exc = NoExc /\ outcome = NoOutcome /\ calls = <<>>
    /\ clauses = <<>> /\ idx = 0 /\ results = <<>> /\ http = NoHttp
    /\ guidance = NotCalled

\* the /api/analyze endpoint under every environment and provider answer
Init == env \in Envs /\ stub = GatewayOutcomes /\ Idle

Next == PostAnalyze \/ analyze_clause \/ AnalyzeRespond

Spec == Init /\ [][Next]_vars

\* the /api/batch-analyze endpoint
BatchInit == env \in BatchEnvs /\ stub = BatchGatewayOutcomes /\ Idle

BatchNext == PostBatch \/ BatchCall \/ analyze_clause \/ BatchRecord \/ BatchReturn

BatchSpec == BatchInit /\ [][BatchNext]_vars

\* the functions of backend/prompts.py called directly
PromptInit ==
    /\ env = CHOOSE e \in BatchEnvs : e.OPENAI_API_KEY = "unset"
    /\ stub = {}
    /\ endpoint = "prompts" /\ req \in PromptRequests /\ pc = "idle"
    /\ llm = NoLlm /\ prompt = <<>> /\ response = NoResponse /\ result = NoJson
    /\ exc = NoExc /\ outcome = NoOutcome /\ calls = <<>>
    /\ clauses = <<>> /\ idx = 0 /\ results = <<>> /\ http = NoHttp
    /\ guidance = NotCalled

PromptNext == CallEnhancedPrompt \/ CallIndustryGuidance

PromptSpec == PromptInit /\ [][PromptNext]_vars

----------------------------------------------------------------------------
(* Properties *)

\* /api/analyze has answered
AnalyzeDone == endpoint = "idle" /\ http.kind = "analyze"

\* /api/batch-analyze has answered
BatchDone == endpoint = "idle" /\ http.kind = "batch"

\* analyze_clause has just ended, by return or by raise
PipelineEnded == pc \in {"returned", "raised"}

Range(f) == {f[i] : i \in DOMAIN f}

\* C1: a clause whose trimmed length is below 10 is answered with HTTP 400
\* and no gateway call is made.
C1_ShortClauseIs400 ==
    (AnalyzeDone /\ Len(Strip(req.clause)) < MinClauseLength)
        => (http.status_code = 400 /\ calls = <<>>)

\* the entry e is the outcome of request r: a success carries r's metadata,
\* an error carries the echo of r's clause
EntryIsFor(e, r) ==
    \/ /\ e.status = "success"
       /\ e.result.kind = "response"
       /\ e.result.metadata.clause_length = Len(r.clause)
       /\ e.result.metadata.has_context = (~r.context.none /\ r.context.str # <<>>)
    \/ /\ e.status = "error"
       /\ e.error # <<>>
       /\ e.clause = SubSeq(r.clause, 1, Min(50, Len(r.clause))) \o <<".", ".", ".">>

\* C2: a batch of n <= 10 items is answered with n results, the i-th for the
\* i-th item, and total = n; a batch of n > 10 items is answered with HTTP
\* 400 before any item is processed.
C2_BatchShape ==
    BatchDone =>
        IF Len(clauses) <= 10
        THEN /\ http.status_code = 200
             /\ Len(http.results) = Len(clauses)
             /\ http.total = Len(clauses)
             /\ \A i \in 1..Len(clauses) : EntryIsFor(http.results[i], clauses[i])
        ELSE /\ http.status_code = 400
             /\ http.results = <<>> /\ results = <<>>
             /\ calls = <<>>
             /\ req = NoReq /\ outcome = NoOutcome

C2_Witness ==
    /\ BatchDone
    /\ Len(http.results) = 10
    /\ \E i, j \in 1..10 :
          /\ i < j
          /\ http.results[i].status = "error"
          /\ http.results[j].status = "success"

\* C3: when analyze_clause ends for item i, batch_analyze stays in its loop
\* and appends one entry at position i, "success" exactly when the pipeline
\* returned a response and "error" otherwise; the earlier entries are kept
\* and the loop moves on to item i+1.  The batch answers only after the last
\* item.
C3_ItemFailureIsolated ==
    [][ /\ (endpoint = "batch" /\ PipelineEnded) =>
            /\ endpoint' = "batch"
            /\ http' = NoHttp
            /\ Len(results') = idx
            /\ SubSeq(results', 1, idx - 1) = results
            /\ (results'[idx].status = "success") <=> (outcome.kind = "response")
            /\ (results'[idx].status = "error") <=> (outcome.kind # "response")
            /\ idx' = idx + 1
        /\ (endpoint = "batch" /\ endpoint' # "batch") =>
            /\ Len(results) = Len(clauses)
            /\ http'.status_code = 200
      ]_vars

ProviderFailed == <<"500", ": ", "Analysis failed: ", "provider call failed">>

C3_Witness ==
    /\ BatchDone
    /\ Len(http.results) = 3
    /\ http.results[1].status = "success"
    /\ http.results[2].status = "error"
    /\ http.results[2].error = ProviderFailed
    /\ http.results[3].status = "success"

\* C4: a success response has an english and an arabic object with the same
\* four fields, and the model output behind it had all four fields in both
\* halves.
C4_BothHalvesComplete ==
    (AnalyzeDone /\ http.status_code = 200) =>
        /\ http.body.english.keys = Four
        /\ http.body.english.nulls = {}
        /\ http.body.arabic.t = "object"
        /\ http.body.arabic.keys = Four
        /\ Four \subseteq response.value.keys

\* C5: a success response is given only for text that parsed to an object
\* holding both "summary" and "arabic"; text that does not parse, or lacks
\* either key, is answered with HTTP 500 and no success object.
C5_SuccessNeedsBothKeys ==
    AnalyzeDone =>
        /\ http.status_code = 200 =>
              /\ response.kind = "content" /\ response.parses
              /\ response.value.t = "object"
              /\ {"summary", "arabic"} \subseteq response.value.keys
        /\ ( /\ response.kind = "content"
             /\ \/ ~response.parses
                \/ "summary" \notin response.value.keys
                \/ "arabic" \notin response.value.keys )
           => /\ http.status_code = 500
              /\ http.body.kind = "HTTPException"
              /\ http.body.english = NoEnglish
              /\ http.body.arabic = Absent

C5_Witness ==
    /\ AnalyzeDone
    /\ response.parses
    /\ response.value.keys = Four
    /\ http.status_code = 500

\* C6: analyze_clause ends with a response, or with an HTTPException that
\* has a status code and a message; an exception raised in the try block
\* ends it with HTTP 500, and the message of an exception from building the
\* client, the gateway call, JSON parsing or response construction is
\* carried in the detail.
C6_TwoOutcomes ==
    (PipelineEnded \/ AnalyzeDone) =>
        /\ outcome.kind \in {"response", "HTTPException"}
        /\ outcome.kind = "response" => (outcome.status_code = 200 /\ exc = NoExc)
        /\ outcome.kind = "HTTPException" =>
              (outcome.status_code \in {400, 500} /\ outcome.detail # <<>>)
        /\ exc # NoExc => (outcome.kind = "HTTPException" /\ outcome.status_code = 500)
        /\ exc.type \notin {"none", "HTTPException"} =>
              outcome.detail = <<"Analysis failed: ">> \o exc.detail

C6_Witness ==
    /\ AnalyzeDone
    /\ exc.type = "ValidationError"
    /\ http.status_code = 500

\* C7: tracing never fails the request: whatever the tracing flag and
\* credentials, a valid clause with the provider key set gets its gateway
\* call, as it does with tracing disabled, and no request ends on the
\* tracing client's exception.
C7_TracingFailsOpen ==
    AnalyzeDone =>
        /\ exc.type # "LangfuseError"
        /\ (Len(Strip(req.clause)) >= MinClauseLength /\ env.OPENAI_API_KEY = "set")
              => Len(calls) = 1

\* a and b differ at most in letter case
SameUpToCase(a, b) ==
    /\ Len(a) = Len(b)
    /\ \A i \in 1..Len(a) : a[i] = b[i] \/ UpperChar(a[i]) = b[i] \/ a[i] = UpperChar(b[i])

\* C8: get_industry_guidance returns a non-empty text for every string; two
\* inputs that differ only in letter case get the same text; each of the six
\* tags, in any case, gets its own sentence and every other string the
\* generic one.
C8_GuidanceLookup ==
    guidance # NotCalled =>
        /\ guidance # ""
        /\ \A other \in IndustryInputs :
              SameUpToCase(other, req.industry.str) => get_industry_guidance(other) = guidance
        /\ \A tag \in IndustryTags :
              SameUpToCase(tag, req.industry.str) =>
                  /\ guidance = industry_guides(tag)
                  /\ guidance # GenericGuidance
                  /\ \A t2 \in IndustryTags \ {tag} : guidance # industry_guides(t2)
        /\ (\A tag \in IndustryTags : ~SameUpToCase(tag, req.industry.str))
              => guidance = GenericGuidance

C8_Witness ==
    /\ guidance = industry_guides(real_estate)
    /\ req.industry.str # real_estate

\* C9 as stated: a run of analyze_clause makes exactly one gateway call when
\* the clause passes input validation and none otherwise (read on the runs
\* with tracing disabled).
C9_OneCallIffValid ==
    (PipelineEnded /\ ~TracingEnabled(env)) =>
        ((idx \in Range(calls)) <=> (Len(Strip(req.clause)) >= MinClauseLength))

\* C9 amended: a run of analyze_clause makes exactly one gateway call when
\* the clause passes input validation and get_llm returned a client, and none
\* otherwise; a failed call is not retried and ends the run with an error;
\* a batch makes at most one call per item, in input order, the call for
\* an item only after the entries of all earlier items are recorded.
C9_AtMostOneCallPerItem ==
    /\ Len(calls) <= Len(clauses)
    /\ \A j \in 1..Len(calls) :
          /\ calls[j] \in 1..Len(clauses)
          /\ calls[j] <= Len(results) + 1
          /\ j > 1 => calls[j - 1] < calls[j]
    /\ PipelineEnded =>
          /\ (idx \in Range(calls)) <=>
                (Len(Strip(req.clause)) >= MinClauseLength /\ llm.model # "")
          /\ response.kind = "raise" => outcome.kind # "response"

C9_Witness ==
    /\ BatchDone
    /\ Len(clauses) = 10
    /\ Len(calls) = 3
    /\ http.results[calls[1]].error = ProviderFailed
    /\ http.results[calls[2]].status = "success"

HasContextSection(p) == \E i \in 1..Len(p) : p[i] = Lit("\n\nAdditional context: ")

\* C10 as stated: the "Additional context" section is appended for every
\* non-null context, the empty string included, and only then.
C10_ContextWheneverNonNull ==
    prompt # <<>> => (HasContextSection(prompt) <=> ~req.context.none)

\* C10 amended: the "Additional context" section, holding the context, is
\* appended exactly when context is neither null nor the empty string; the
\* prompt begins with "Analyze this contract clause:" and the clause verbatim.
C10_ContextWhenNonEmpty ==
    prompt # <<>> =>
        /\ prompt[1] = Lit("Analyze this contract clause:\n\n")
        /\ prompt[2] = Text(req.clause)
        /\ HasContextSection(prompt) <=> (~req.context.none /\ req.context.str # <<>>)
        /\ HasContextSection(prompt) =>
              /\ prompt[3] = Lit("\n\nAdditional context: ")
              /\ prompt[4] = Text(req.context.str)

C10_Witness ==
    /\ prompt # <<>>
    /\ req.context = Some(<<>>)
    /\ ~HasContextSection(prompt)

====
